---- MODULE Spec2Model ----
(***************************************************************************)
(* Model of luminary's matrix / transform core (src/core/matrix44.rs and   *)
(* src/core/transform.rs).                                                 *)
(*                                                                         *)
(* An f64 is modelled as an exact extended rational <<n, d>> in lowest     *)
(* terms with d >= 0: d > 0 is the finite value n/d, <<1,0>> is +inf,      *)
(* <<-1,0>> is -inf and <<0,0>> is NaN, so that a division by zero gives   *)
(* the non-finite value IEEE-754 gives.  Rounding and the sign of zero are *)
(* not modelled.  A Matrix44 is a 4-tuple of rows, each a 4-tuple of such  *)
(* values; the source's index i in 0..3 is index i+1 here.                 *)
(***************************************************************************)
EXTENDS Integers, Sequences, FiniteSets, TLC

(* ------------------------------ bounds --------------------------------- *)
MaxCoef == 2
MaxInverses == 2
MaxDelta == 1
MaxOps == 2
MaxTransposes == 2
MaxIndex == 5
MaxScalar == 2
MaxBox == 1

(* --------------------------- f64 arithmetic ---------------------------- *)
Abs(a) == IF a < 0 THEN -a ELSE a

Sign(a) == IF a < 0 THEN -1 ELSE IF a > 0 THEN 1 ELSE 0

RECURSIVE GCD(_, _)
GCD(a, b) == IF b = 0 THEN a ELSE GCD(b, a % b)

Norm(n, d) ==
    IF d = 0 THEN <<Sign(n), 0>>
    ELSE LET g == GCD(Abs(n), Abs(d))
         IN  <<(Sign(d) * n) \div g, Abs(d) \div g>>

F(a) == <<a, 1>>

FNaN == <<0, 0>>

FIsNaN(a) == a = FNaN

FIsFinite(a) == a[2] # 0

FNeg(a) == <<-a[1], a[2]>>

FAbs(a) == <<Abs(a[1]), a[2]>>

FAdd(a, b) ==
    IF a[2] = 0 /\ b[2] = 0
    THEN (IF a = b THEN a ELSE FNaN)
    ELSE Norm(a[1] * b[2] + b[1] * a[2], a[2] * b[2])

FSub(a, b) == FAdd(a, FNeg(b))

FMul(a, b) == Norm(a[1] * b[1], a[2] * b[2])

FDiv(a, b) ==
    IF b[2] = 0
    THEN (IF a[2] = 0 \/ b[1] = 0 THEN FNaN ELSE F(0))
    ELSE IF b[1] = 0 THEN <<Sign(a[1]), 0>>
    ELSE Norm(a[1] * b[2] * Sign(b[1]), a[2] * Abs(b[1]))

FLt(a, b) ==
    /\ ~FIsNaN(a)
    /\ ~FIsNaN(b)
    /\ IF a[2] = 0 \/ b[2] = 0
       THEN (IF a[2] = 0 /\ b[2] = 0 THEN a[1] < b[1]
             ELSE IF a[2] = 0 THEN a[1] < 0 ELSE b[1] > 0)
       ELSE a[1] * b[2] < b[1] * a[2]

FGt(a, b) == FLt(b, a)

FEq(a, b) == ~FIsNaN(a) /\ ~FIsNaN(b) /\ a = b

(* ------------------------------ Matrix44 ------------------------------- *)
Matrix44_new(t00, t01, t02, t03, t10, t11, t12, t13, t20, t21, t22, t23, t30, t31, t32, t33) ==
    << <<t00, t01, t02, t03>>,
       <<t10, t11, t12, t13>>,
       <<t20, t21, t22, t23>>,
       <<t30, t31, t32, t33>> >>

Matrix44_zero ==
    Matrix44_new(F(0), F(0), F(0), F(0),
                 F(0), F(0), F(0), F(0),
                 F(0), F(0), F(0), F(0),
                 F(0), F(0), F(0), F(0))

Matrix44_identity ==
    Matrix44_new(F(1), F(0), F(0), F(0),
                 F(0), F(1), F(0), F(0),
                 F(0), F(0), F(1), F(0),
                 F(0), F(0), F(0), F(1))

(* transpose() that returns the receiver as it is. *)
Matrix44_transpose_Same(self) ==
    Matrix44_new(self[1][1], self[1][2], self[1][3], self[1][4],
                 self[2][1], self[2][2], self[2][3], self[2][4],
                 self[3][1], self[3][2], self[3][3], self[3][4],
                 self[4][1], self[4][2], self[4][3], self[4][4])

Matrix44_transpose(self) ==
    Matrix44_new(self[1][1], self[2][1], self[3][1], self[4][1],
                 self[1][2], self[2][2], self[3][2], self[4][2],
                 self[1][3], self[2][3], self[3][3], self[4][3],
                 self[1][4], self[2][4], self[3][4], self[4][4])

(* One entry of the product with the right operand read transposed. *)
MulEntry_RightTransposed(self, m, i, j) ==
    FAdd(FAdd(FAdd(FMul(self[i][1], m[j][1]),
                   FMul(self[i][2], m[j][2])),
              FMul(self[i][3], m[j][3])),
         FMul(self[i][4], m[j][4]))

MulEntry(self, m, i, j) ==
    FAdd(FAdd(FAdd(FMul(self[i][1], m[1][j]),
                   FMul(self[i][2], m[2][j])),
              FMul(self[i][3], m[3][j])),
         FMul(self[i][4], m[4][j]))

MulRow(self, m, i) ==
    <<MulEntry(self, m, i, 1), MulEntry(self, m, i, 2),
      MulEntry(self, m, i, 3), MulEntry(self, m, i, 4)>>

(* mul() whose loop over i stops after row 2: the last row of the result *)
(* stays the zero row of the initial r.                                  *)
Matrix44_mul_ThreeRows(self, m) ==
    <<MulRow(self, m, 1), MulRow(self, m, 2),
      MulRow(self, m, 3), <<F(0), F(0), F(0), F(0)>>>>

Matrix44_mul(self, m) ==
    <<MulRow(self, m, 1), MulRow(self, m, 2),
      MulRow(self, m, 3), MulRow(self, m, 4)>>

(* Index with the assertion written with < in place of <=. *)
Matrix44_index_Strict(self, i) ==
    IF i < 3 THEN [panic |-> FALSE, row |-> self[i + 1]] ELSE [panic |-> TRUE]

(* Index and IndexMut: the row i, or a panic of the assertion (no value). *)
(* i is a usize, so it is never negative.                                 *)
Matrix44_index(self, i) ==
    IF i <= 3 THEN [panic |-> FALSE, row |-> self[i + 1]] ELSE [panic |-> TRUE]

(* The working state of Matrix44::inverse: the copy s, the accumulator r   *)
(* and ret = TRUE once `return identity` has been executed.                *)
InverseStart(self) == [s |-> self, r |-> Matrix44_identity, ret |-> FALSE]

(* Lines 89-100: the scan of rows j = i+1 .. 3 while the diagonal entry is *)
(* negative.  i, j are the source's 0-based indices.                       *)
RECURSIVE PivotScan(_, _, _, _, _)
PivotScan(s, i, j, pivot, pivot_size) ==
    IF j > 3 THEN [pivot |-> pivot, pivot_size |-> pivot_size]
    ELSE LET tmp == s[j + 1][i + 1]
         IN  IF FLt(tmp, F(0)) /\ FGt(FNeg(tmp), pivot_size)
             THEN PivotScan(s, i, j + 1, j, FNeg(tmp))
             ELSE PivotScan(s, i, j + 1, pivot, pivot_size)

(* Lines 83-101. *)
PivotSearch(s, i) ==
    IF FLt(s[i + 1][i + 1], F(0))
    THEN PivotScan(s, i, i + 1, i, FNeg(s[i + 1][i + 1]))
    ELSE [pivot |-> i, pivot_size |-> s[i + 1][i + 1]]

(* Lines 108-118, for one matrix. *)
SwapRows(m, i, pivot) ==
    IF pivot # i
    THEN [m EXCEPT ![i + 1] = m[pivot + 1], ![pivot + 1] = m[i + 1]]
    ELSE m

(* row_j -= f * row_i over k = 0..3 (lines 123-126 and 146-149). *)
RowSubScaled(m, j, i, f) ==
    [m EXCEPT ![j + 1] =
        <<FSub(m[j + 1][1], FMul(f, m[i + 1][1])),
          FSub(m[j + 1][2], FMul(f, m[i + 1][2])),
          FSub(m[j + 1][3], FMul(f, m[i + 1][3])),
          FSub(m[j + 1][4], FMul(f, m[i + 1][4]))>>]

(* row_i /= f over j = 0..3 (lines 138-141). *)
RowDiv(m, i, f) ==
    [m EXCEPT ![i + 1] =
        <<FDiv(m[i + 1][1], f), FDiv(m[i + 1][2], f),
          FDiv(m[i + 1][3], f), FDiv(m[i + 1][4], f)>>]

(* Lines 120-127: rows j = from .. 3 below the pivot row i. *)
RECURSIVE EliminateBelow(_, _, _)
EliminateBelow(st, i, j) ==
    IF j > 3 THEN st
    ELSE LET f == FDiv(st.s[j + 1][i + 1], st.s[i + 1][i + 1])
         IN  EliminateBelow([st EXCEPT !.s = RowSubScaled(st.s, j, i, f),
                                       !.r = RowSubScaled(st.r, j, i, f)],
                            i, j + 1)

(* Lines 143-150: rows j = from .. i-1 above the pivot row i. *)
RECURSIVE EliminateAbove(_, _, _)
EliminateAbove(st, i, j) ==
    IF j >= i THEN st
    ELSE LET f == st.s[j + 1][i + 1]
         IN  EliminateAbove([st EXCEPT !.s = RowSubScaled(st.s, j, i, f),
                                       !.r = RowSubScaled(st.r, j, i, f)],
                            i, j + 1)

(* ForwardStep that swaps the rows of s only. *)
ForwardStep_SwapSOnly(st, i) ==
    IF st.ret THEN st
    ELSE LET p == PivotSearch(st.s, i)
         IN  IF FEq(p.pivot_size, F(0))
             THEN [st EXCEPT !.ret = TRUE]
             ELSE EliminateBelow([st EXCEPT !.s = SwapRows(st.s, i, p.pivot)],
                                 i, i + 1)

(* ForwardStep without the test of lines 103-106. *)
ForwardStep_NoZeroTest(st, i) ==
    IF st.ret THEN st
    ELSE LET p == PivotSearch(st.s, i)
         IN  EliminateBelow([st EXCEPT !.s = SwapRows(st.s, i, p.pivot),
                                       !.r = SwapRows(st.r, i, p.pivot)],
                            i, i + 1)

(* One iteration of the loop of lines 82-128. *)
ForwardStep(st, i) ==
    IF st.ret THEN st
    ELSE LET p == PivotSearch(st.s, i)
         IN  IF FEq(p.pivot_size, F(0))
             THEN [st EXCEPT !.ret = TRUE]
             ELSE EliminateBelow([st EXCEPT !.s = SwapRows(st.s, i, p.pivot),
                                            !.r = SwapRows(st.r, i, p.pivot)],
                                 i, i + 1)

(* BackStep without the test of lines 133-136. *)
BackStep_NoZeroTest(st, i) ==
    IF st.ret THEN st
    ELSE LET f == st.s[i + 1][i + 1]
         IN  EliminateAbove([st EXCEPT !.s = RowDiv(st.s, i, f),
                                       !.r = RowDiv(st.r, i, f)],
                            i, 0)

(* One iteration of the loop of lines 130-151. *)
BackStep(st, i) ==
    IF st.ret THEN st
    ELSE LET f == st.s[i + 1][i + 1]
         IN  IF FEq(f, F(0))
             THEN [st EXCEPT !.ret = TRUE]
             ELSE EliminateAbove([st EXCEPT !.s = RowDiv(st.s, i, f),
                                            !.r = RowDiv(st.r, i, f)],
                                 i, 0)

InverseRun(self) ==
    LET f0 == ForwardStep(InverseStart(self), 0)
        f1 == ForwardStep(f0, 1)
        f2 == ForwardStep(f1, 2)
        b3 == BackStep(f2, 3)
        b2 == BackStep(b3, 2)
        b1 == BackStep(b2, 1)
    IN  BackStep(b1, 0)

(* The working states of inverse in order: at the start, after each of    *)
(* the iterations i = 0, 1, 2 of the first loop and after each of the     *)
(* iterations i = 3, 2, 1, 0 of the second.                               *)
InverseTrace(self) ==
    LET f0 == ForwardStep(InverseStart(self), 0)
        f1 == ForwardStep(f0, 1)
        f2 == ForwardStep(f1, 2)
        b3 == BackStep(f2, 3)
        b2 == BackStep(b3, 2)
        b1 == BackStep(b2, 1)
    IN  <<InverseStart(self), f0, f1, f2, b3, b2, b1, BackStep(b1, 0)>>

Matrix44_inverse(self) ==
    LET st == InverseRun(self)
    IN  IF st.ret THEN Matrix44_identity ELSE st.r

(* ------------------------------ Transform ------------------------------ *)
Transform_new == [m |-> Matrix44_identity, m_inv |-> Matrix44_identity]

(* translate() whose m_inv repeats the forward matrix. *)
Transform_translate_SameSign(delta) ==
    [m     |-> Matrix44_new(F(1), F(0), F(0), delta[1],
                            F(0), F(1), F(0), delta[2],
                            F(0), F(0), F(1), delta[3],
                            F(0), F(0), F(0), F(1)),
     m_inv |-> Matrix44_new(F(1), F(0), F(0), delta[1],
                            F(0), F(1), F(0), delta[2],
                            F(0), F(0), F(1), delta[3],
                            F(0), F(0), F(0), F(1))]

(* delta is a Vector3f <<x, y, z>>. *)
Transform_translate(delta) ==
    [m     |-> Matrix44_new(F(1), F(0), F(0), delta[1],
                            F(0), F(1), F(0), delta[2],
                            F(0), F(0), F(1), delta[3],
                            F(0), F(0), F(0), F(1)),
     m_inv |-> Matrix44_new(F(1), F(0), F(0), FNeg(delta[1]),
                            F(0), F(1), F(0), FNeg(delta[2]),
                            F(0), F(0), F(1), FNeg(delta[3]),
                            F(0), F(0), F(0), F(1))]

(* scale() that stores the factors, not their reciprocals, in m_inv. *)
Transform_scale_SameFactors(x_, y_, z_) ==
    [m     |-> Matrix44_new(x_, F(0), F(0), F(0),
                            F(0), y_, F(0), F(0),
                            F(0), F(0), z_, F(0),
                            F(0), F(0), F(0), F(1)),
     m_inv |-> Matrix44_new(x_, F(0), F(0), F(0),
                            F(0), y_, F(0), F(0),
                            F(0), F(0), z_, F(0),
                            F(0), F(0), F(0), F(1))]

Transform_scale(x_, y_, z_) ==
    [m     |-> Matrix44_new(x_, F(0), F(0), F(0),
                            F(0), y_, F(0), F(0),
                            F(0), F(0), z_, F(0),
                            F(0), F(0), F(0), F(1)),
     m_inv |-> Matrix44_new(FDiv(F(1), x_), F(0), F(0), F(0),
                            F(0), FDiv(F(1), y_), F(0), F(0),
                            F(0), F(0), FDiv(F(1), z_), F(0),
                            F(0), F(0), F(0), F(1))]

(* inverse() that returns the receiver as it is. *)
Transform_inverse_NoSwap(self) == [m |-> self.m, m_inv |-> self.m_inv]

(* inverse() that inverts the new forward matrix numerically. *)
Transform_inverse_Recompute(self) ==
    [m |-> self.m_inv, m_inv |-> Matrix44_inverse(self.m_inv)]

Transform_inverse(self) == [m |-> self.m_inv, m_inv |-> self.m]

(* transpose() that also exchanges the two fields. *)
Transform_transpose_Swapped(self) ==
    [m |-> Matrix44_transpose(self.m_inv), m_inv |-> Matrix44_transpose(self.m)]

Transform_transpose(self) ==
    [m |-> Matrix44_transpose(self.m), m_inv |-> Matrix44_transpose(self.m_inv)]

(* from() that stores the matrix in both fields. *)
Transform_from_NoInverse(m) == [m |-> m, m_inv |-> m]

Transform_from(m) == [m |-> m, m_inv |-> Matrix44_inverse(m)]

(* Mul with the operands of the forward product exchanged. *)
Transform_mul_Exchanged(self, other) ==
    [m     |-> Matrix44_mul(other.m, self.m),
     m_inv |-> Matrix44_mul(other.m, self.m_inv)]

Transform_mul(self, other) ==
    [m     |-> Matrix44_mul(self.m, other.m),
     m_inv |-> Matrix44_mul(other.m, self.m_inv)]

(* ------------------------------- inputs -------------------------------- *)
Coef == (0 - MaxCoef) .. MaxCoef

(* The 2x2 block [[a, b], [c, d]] in the upper left corner, coupled to the *)
(* lower right corner by e.                                                *)
BaseMatrix(a, b, c, d, e) ==
    Matrix44_new(F(a), F(b), F(0), F(0),
                 F(c), F(d), F(e), F(0),
                 F(0), F(e), F(1), F(e),
                 F(e), F(0), F(0), F(1))

(* The rows of m rotated upwards by k. *)
Rotate(m, k) ==
    <<m[((0 + k) % 4) + 1], m[((1 + k) % 4) + 1],
      m[((2 + k) % 4) + 1], m[((3 + k) % 4) + 1]>>

MatrixInputs ==
    {Rotate(BaseMatrix(a, b, c, d, e), k) :
        a \in Coef, b \in Coef, c \in Coef, d \in Coef, e \in 0 .. 1, k \in 0 .. 3}

(* Integer vectors along one axis, of length at most MaxDelta. *)
AxisVectors ==
    {v \in ((0 - MaxDelta) .. MaxDelta) \X ((0 - MaxDelta) .. MaxDelta)
                                        \X ((0 - MaxDelta) .. MaxDelta) :
        \/ v[1] = 0 /\ v[2] = 0
        \/ v[1] = 0 /\ v[3] = 0
        \/ v[2] = 0 /\ v[3] = 0}

Deltas == {<<F(v[1]), F(v[2]), F(v[3])>> : v \in AxisVectors}

(* Scale factors around 1, a zero factor included. *)
Scales == {<<F(1 + v[1]), F(1 + v[2]), F(1 + v[3])>> : v \in AxisVectors}

(* Matrices for Transform::from: singular ones (a = b = 0 has zero rows),  *)
(* row-swapped ones (a = 0, b = 1) and ones with a negative diagonal.      *)
FromInputs ==
    {BaseMatrix(a, b, b, a, 0) : a \in (0 - MaxDelta) .. MaxDelta, b \in 0 .. 1}

(* ---------------------- scalars: the Value trait ------------------------ *)
(* A scalar type T is "f64" (values as above) or "i32" (an integer).  The  *)
(* i32 values of the model are small, so no i32 operation overflows.       *)
ValueTypes == {"f64", "i32"}

(* i32 division truncates toward zero; the divisor is not 0. *)
I32Div(a, b) == Sign(a) * Sign(b) * (Abs(a) \div Abs(b))

VOne(T) == IF T = "f64" THEN F(1) ELSE 1

VLt(T, a, b) == IF T = "f64" THEN FLt(a, b) ELSE a < b

VGt(T, a, b) == VLt(T, b, a)

(* a != b of PartialEq: a NaN is unequal to everything, itself included. *)
VNe(T, a, b) == IF T = "f64" THEN ~FEq(a, b) ELSE a # b

VIsZero(T, a) == IF T = "f64" THEN a = F(0) ELSE a = 0

VMul(T, a, b) == IF T = "f64" THEN FMul(a, b) ELSE a * b

(* a / b; the i32 division by zero panics and is guarded by the callers.  *)
VDiv(T, a, b) == IF T = "f64" THEN FDiv(a, b) ELSE I32Div(a, b)

(* min with the comparison turned around: other unless self is smaller     *)
(* becomes self unless other is smaller.                                   *)
Value_min_Turned(T, self, other) == IF VLt(T, other, self) THEN other ELSE self

Value_min(T, self, other) == IF VLt(T, self, other) THEN self ELSE other

Value_max(T, self, other) == IF VGt(T, self, other) THEN self ELSE other

(* has_nans that looks at the first argument only. *)
has_nans_3_FirstOnly(T, x_, y_, z_) == VNe(T, x_, x_)

has_nans_3(T, x_, y_, z_) == VNe(T, x_, x_) \/ VNe(T, y_, y_) \/ VNe(T, z_, z_)

has_nans_2(T, x_, y_) == VNe(T, x_, x_) \/ VNe(T, y_, y_)

(* The result of a call that may panic: a value, or no value. *)
Returned(v) == [panic |-> FALSE, val |-> v]

Panicked == [panic |-> TRUE]

(* Point3::new, Vector3::new and Normal3::new: the same assertion and the  *)
(* same three fields, here the tuple <<x, y, z>>.                          *)
Triple_new(T, x_, y_, z_) ==
    IF ~has_nans_3(T, x_, y_, z_) THEN Returned(<<x_, y_, z_>>) ELSE Panicked

(* Point2::new (has_nans_2) and Vector2::new (Vector2::has_nans, the same  *)
(* test on the fields of the value already built).                         *)
Pair_new(T, x_, y_) ==
    IF ~has_nans_2(T, x_, y_) THEN Returned(<<x_, y_>>) ELSE Panicked

(* Div<T> and DivAssign<T> of Vector3, Normal3 (three fields) and Vector2  *)
(* (two): inv = T::one() / other, then every field times inv.  For i32 a   *)
(* zero divisor panics in the division.                                    *)
Vec_div(T, self, other) ==
    IF T = "i32" /\ other = 0 THEN Panicked
    ELSE LET inv == VDiv(T, VOne(T), other)
         IN  Returned([k \in DOMAIN self |-> VMul(T, self[k], inv)])

(* Scalar inputs: the integers up to MaxScalar and, for f64, a fraction,   *)
(* the infinities and NaN.                                                 *)
Scalars(T) ==
    IF T = "f64"
    THEN {F(k) : k \in (0 - MaxScalar) .. MaxScalar}
            \cup {<<1, 2>>, <<1, 0>>, <<-1, 0>>, FNaN}
    ELSE (0 - MaxScalar) .. MaxScalar

(* The vector of the div tests (vector3.rs:505-523), in both types. *)
TestVector(T) == IF T = "f64" THEN <<F(2), F(4), F(6)>> ELSE <<2, 4, 6>>

Triples(T) == (Scalars(T) \X Scalars(T) \X Scalars(T)) \cup {TestVector(T)}

Pairs(T) == Scalars(T) \X Scalars(T)

(* ------------------------------- Bounds3 -------------------------------- *)
(* A Point3 is the tuple <<x, y, z>>, a Bounds3 the record of p_min and    *)
(* p_max.                                                                  *)
VLe(T, a, b) == IF T = "f64" THEN FLt(a, b) \/ FEq(a, b) ELSE a <= b

VGe(T, a, b) == VLe(T, b, a)

Bounds3_new(T, p1, p2) ==
    [p_min |-> <<Value_min(T, p1[1], p2[1]), Value_min(T, p1[2], p2[2]),
                 Value_min(T, p1[3], p2[3])>>,
     p_max |-> <<Value_max(T, p1[1], p2[1]), Value_max(T, p1[2], p2[2]),
                 Value_max(T, p1[3], p2[3])>>]

Bounds3_from(T, p) == Bounds3_new(T, p, p)

(* p_max is computed with min, as p_min is (bounds3.rs:73-77). *)
Bounds3_union(T, self, p) ==
    [p_min |-> <<Value_min(T, self.p_min[1], p[1]), Value_min(T, self.p_min[2], p[2]),
                 Value_min(T, self.p_min[3], p[3])>>,
     p_max |-> <<Value_min(T, self.p_max[1], p[1]), Value_min(T, self.p_max[2], p[2]),
                 Value_min(T, self.p_max[3], p[3])>>]

Bounds3_inside(T, self, p) ==
    /\ VGe(T, p[1], self.p_min[1]) /\ VLe(T, p[1], self.p_max[1])
    /\ VGe(T, p[2], self.p_min[2]) /\ VLe(T, p[2], self.p_max[2])
    /\ VGe(T, p[3], self.p_min[3]) /\ VLe(T, p[3], self.p_max[3])

(* T::max_value() and T::min_value() of Bounded.  The i32 values are the  *)
(* real ones; f64::MAX and f64::MIN are stood for by F64Max and its        *)
(* negation, finite values beyond every other finite value of the model.  *)
I32Max == 2147483647

F64Max == F(1000000000)

VMaxValue(T) == IF T = "f64" THEN F64Max ELSE I32Max

VMinValue(T) == IF T = "f64" THEN FNeg(F64Max) ELSE (0 - I32Max) - 1

(* zero() with the two sentinels exchanged. *)
Bounds3_zero_Exchanged(T) ==
    [p_min |-> <<VMinValue(T), VMinValue(T), VMinValue(T)>>,
     p_max |-> <<VMaxValue(T), VMaxValue(T), VMaxValue(T)>>]

Bounds3_zero(T) ==
    [p_min |-> <<VMaxValue(T), VMaxValue(T), VMaxValue(T)>>,
     p_max |-> <<VMinValue(T), VMinValue(T), VMinValue(T)>>]

Bounds2_zero(T) ==
    [p_min |-> <<VMaxValue(T), VMaxValue(T)>>,
     p_max |-> <<VMinValue(T), VMinValue(T)>>]

(* The z line reads b.p_min.x (bounds3.rs:99). *)
Bounds3_overlap(T, self, b) ==
    /\ VGe(T, self.p_max[1], b.p_min[1]) /\ VLe(T, self.p_min[1], b.p_max[1])
    /\ VGe(T, self.p_max[2], b.p_min[2]) /\ VLe(T, self.p_min[2], b.p_max[2])
    /\ VGe(T, self.p_max[3], b.p_min[1]) /\ VLe(T, self.p_min[3], b.p_max[3])

VSub(T, a, b) == IF T = "f64" THEN FSub(a, b) ELSE a - b

VAdd(T, a, b) == IF T = "f64" THEN FAdd(a, b) ELSE a + b

(* Point3 - Point3, a Vector3. *)
Point3_sub(T, self, other) ==
    <<VSub(T, self[1], other[1]), VSub(T, self[2], other[2]),
      VSub(T, self[3], other[3])>>

(* The y line divides o.x, already divided, not o.y (bounds3.rs:175). *)
Bounds3_offset(T, self, p) ==
    LET o0 == Point3_sub(T, p, self.p_min)
        ox == IF VGt(T, self.p_max[1], self.p_min[1])
              THEN VDiv(T, o0[1], VSub(T, self.p_max[1], self.p_min[1]))
              ELSE o0[1]
        oy == IF VGt(T, self.p_max[2], self.p_min[2])
              THEN VDiv(T, ox, VSub(T, self.p_max[2], self.p_min[2]))
              ELSE o0[2]
        oz == IF VGt(T, self.p_max[3], self.p_min[3])
              THEN VDiv(T, o0[3], VSub(T, self.p_max[3], self.p_min[3]))
              ELSE o0[3]
    IN  <<ox, oy, oz>>

VZero(T) == IF T = "f64" THEN F(0) ELSE 0

(* utils::lerp: the first weight is negative_one - t (utils.rs:12-14). *)
utils_lerp(T, t, v1, v2) ==
    LET negative_one == VSub(T, VZero(T), VOne(T))
    IN  VAdd(T, VMul(T, VSub(T, negative_one, t), v1), VMul(T, t, v2))

Bounds3_lerp(T, self, t) ==
    <<utils_lerp(T, t[1], self.p_min[1], self.p_max[1]),
      utils_lerp(T, t[2], self.p_min[2], self.p_max[2]),
      utils_lerp(T, t[3], self.p_min[3], self.p_max[3])>>

(* Point3::lerp for T = f64, where the cast of t is t itself:              *)
(* self * (1 - t) + other * t.                                             *)
Point3_lerp(self, other, t) ==
    <<FAdd(FMul(self[1], FSub(F(1), t)), FMul(other[1], t)),
      FAdd(FMul(self[2], FSub(F(1), t)), FMul(other[2], t)),
      FAdd(FMul(self[3], FSub(F(1), t)), FMul(other[3], t))>>

(* max_dimension whose first branch answers 1 where the code answers 2. *)
Vector3_max_dimension_WrongElse(T, self) ==
    IF VGt(T, self[1], self[2])
    THEN (IF VGt(T, self[1], self[3]) THEN 0 ELSE 1)
    ELSE (IF VGt(T, self[2], self[3]) THEN 1 ELSE 2)

(* Vector3::max_dimension and Normal3::max_dimension (the same code). *)
Vector3_max_dimension(T, self) ==
    IF VGt(T, self[1], self[2])
    THEN (IF VGt(T, self[1], self[3]) THEN 0 ELSE 2)
    ELSE (IF VGt(T, self[2], self[3]) THEN 1 ELSE 2)

Bounds3_diagonal(T, self) == Point3_sub(T, self.p_max, self.p_min)

Bounds3_maximum_extent(T, self) ==
    LET d == Bounds3_diagonal(T, self)
    IN  IF VGt(T, d[1], d[2]) /\ VGt(T, d[1], d[3]) THEN 0
        ELSE IF VGt(T, d[2], d[3]) THEN 1
        ELSE 2

(* The scalars that are numbers, and the triples new() accepts. *)
FiniteScalars(T) == {v \in Scalars(T) : T = "i32" \/ FIsFinite(v)}

ValidTriples(T) == {v \in Triples(T) : ~has_nans_3(T, v[1], v[2], v[3])}

(* The transform of a point, which the repository's files do not hold:     *)
(* the homogeneous coordinates (x, y, z, 1) are multiplied by t.m and      *)
(* divided by the resulting w unless w is 1.                               *)
Point3_transform(p, t) ==
    LET h  == <<<<p[1]>>, <<p[2]>>, <<p[3]>>, <<F(1)>>>>
        xp == MulEntry(t.m, h, 1, 1)
        yp == MulEntry(t.m, h, 2, 1)
        zp == MulEntry(t.m, h, 3, 1)
        wp == MulEntry(t.m, h, 4, 1)
    IN  IF wp = F(1) THEN <<xp, yp, zp>>
        ELSE <<FDiv(xp, wp), FDiv(yp, wp), FDiv(zp, wp)>>

(* The transform of a vector, which the repository's files do not hold     *)
(* either: the homogeneous coordinates (x, y, z, 0) are multiplied by t.m. *)
Vector3_transform(v, t) ==
    LET h == <<<<v[1]>>, <<v[2]>>, <<v[3]>>, <<F(0)>>>>
    IN  <<MulEntry(t.m, h, 1, 1), MulEntry(t.m, h, 2, 1), MulEntry(t.m, h, 3, 1)>>

Vector3_abs(self) == <<FAbs(self[1]), FAbs(self[2]), FAbs(self[3])>>

Vector3_dot(self, other) ==
    FAdd(FAdd(FMul(self[1], other[1]), FMul(self[2], other[2])),
         FMul(self[3], other[3]))

Vector3_length_squared(self) ==
    FAdd(FAdd(FMul(self[1], self[1]), FMul(self[2], self[2])),
         FMul(self[3], self[3]))

Vector3_mul(self, other) ==
    <<FMul(self[1], other), FMul(self[2], other), FMul(self[3], other)>>

Point3_add_assign(self, other) ==
    <<FAdd(self[1], other[1]), FAdd(self[2], other[2]), FAdd(self[3], other[3])>>

Ray_new(o, d, medium, t_max, time) ==
    [o |-> o, d |-> d, medium |-> medium, t_max |-> t_max, time |-> time]

(* The ray transform with an origin error of (1, 1, 1) in place of zero. *)
Ray_transform_UnitError(self, t) ==
    LET o_error == <<F(1), F(1), F(1)>>
        o == Point3_transform(self.o, t)
        d == Vector3_transform(self.d, t)
        length_squared == Vector3_length_squared(d)
        dt == FDiv(Vector3_dot(Vector3_abs(d), o_error), length_squared)
    IN  IF FGt(length_squared, F(0))
        THEN [o |-> Point3_add_assign(o, Vector3_mul(d, dt)), d |-> d,
              t_max |-> FSub(self.t_max, dt), time |-> self.time,
              medium |-> self.medium]
        ELSE [o |-> o, d |-> d, t_max |-> self.t_max, time |-> self.time,
              medium |-> self.medium]

(* impl Transformable for Ray (ray.rs:46-64). *)
Ray_transform(self, t) ==
    LET o_error == <<F(0), F(0), F(0)>>
        o == Point3_transform(self.o, t)
        d == Vector3_transform(self.d, t)
        length_squared == Vector3_length_squared(d)
        dt == FDiv(Vector3_dot(Vector3_abs(d), o_error), length_squared)
    IN  IF FGt(length_squared, F(0))
        THEN [o |-> Point3_add_assign(o, Vector3_mul(d, dt)), d |-> d,
              t_max |-> FSub(self.t_max, dt), time |-> self.time,
              medium |-> self.medium]
        ELSE [o |-> o, d |-> d, t_max |-> self.t_max, time |-> self.time,
              medium |-> self.medium]

(* The corners in the order Bounds3::transform visits them; 1 selects      *)
(* p_min and 2 selects p_max on an axis.                                   *)
CornerOrder ==
    <<<<1, 1, 1>>, <<2, 1, 1>>, <<1, 2, 1>>, <<1, 1, 2>>,
      <<1, 2, 2>>, <<2, 2, 1>>, <<2, 1, 2>>, <<2, 2, 2>>>>

CornerAt(self, k) ==
    LET sel == CornerOrder[k]
        ends == <<self.p_min, self.p_max>>
    IN  <<ends[sel[1]][1], ends[sel[2]][2], ends[sel[3]][3]>>

RECURSIVE UnionCorners(_, _, _, _)
UnionCorners(result, self, t, k) ==
    IF k > 8 THEN result
    ELSE UnionCorners(Bounds3_union("f64", result, Point3_transform(CornerAt(self, k), t)),
                      self, t, k + 1)

Bounds3_transform(self, t) ==
    UnionCorners(Bounds3_from("f64", Point3_transform(CornerAt(self, 1), t)),
                 self, t, 2)

(* Points with coordinates 0 .. MaxBox, and the boxes new() builds of them. *)
BoxPoints ==
    {<<F(a), F(b), F(c)>> : a \in 0 .. MaxBox, b \in 0 .. MaxBox, c \in 0 .. MaxBox}

Boxes == {Bounds3_new("f64", p1, p2) : p1 \in BoxPoints, p2 \in BoxPoints}

(* Rays: origins and directions with coordinates 0..MaxBox, t_max the      *)
(* infinity of Ray::zero() or 1.                                           *)
Rays ==
    {Ray_new(o, d, "Medium", tm, F(0)) :
        o \in BoxPoints, d \in BoxPoints, tm \in {F(1), <<1, 0>>}}

(* Transforms as the constructors and inverse() build them. *)
RayTransforms ==
    {Transform_new} \cup {Transform_translate(d) : d \in Deltas}
        \cup {Transform_scale(s[1], s[2], s[3]) : s \in Scales}
        \cup {Transform_inverse(Transform_scale(s[1], s[2], s[3])) : s \in Scales}

(* ------------------------------- state --------------------------------- *)
VARIABLES
    mat,    \* the Matrix44 under test
    outs,   \* outs[k] is Matrix44::inverse applied k times to mat
    x,      \* the Transform the caller operates on
    y,      \* a copy of x or of an earlier x (Transform is Copy)
    last,   \* the last operation: its name, its Transform operands a and b (the
            \* identity pair where it has none) and its other input arg
    n,      \* number of operations so far
    xadm,   \* history: x was built from new(), translate(d), scale with non-zero
            \* factors and from(M) with det M # 0 only
    yadm,   \* the same for y
    ma,     \* a Matrix44 the caller holds
    mb,     \* another Matrix44 the caller holds
    call    \* the last call of a pure function: its name, inputs and result

vars == <<mat, outs, x, y, last, n, xadm, yadm, ma, mb, call>>

NoCall == [op |-> "none"]

(* ---------------- Matrix44::inverse as a pure function ------------------ *)
InitInv ==
    /\ mat \in MatrixInputs
    /\ outs = <<>>
    /\ x = Transform_new
    /\ y = Transform_new
    /\ last = [op |-> "none", a |-> Transform_new, b |-> Transform_new, arg |-> <<>>]
    /\ n = 0
    /\ xadm = TRUE
    /\ yadm = TRUE
    /\ ma = Matrix44_identity
    /\ mb = Matrix44_identity
    /\ call = NoCall

Invert ==
    /\ Len(outs) < MaxInverses
    /\ outs' = Append(outs, Matrix44_inverse(IF outs = <<>> THEN mat
                                             ELSE outs[Len(outs)]))
    /\ UNCHANGED <<mat, x, y, last, n, xadm, yadm, ma, mb, call>>

NextInv == Invert

SpecInv == InitInv /\ [][NextInv]_vars

(* ------------------------- Transform operations ------------------------- *)
(* The determinant, by expansion along the first row. *)
Det2(m, r1, r2, c1, c2) ==
    FSub(FMul(m[r1][c1], m[r2][c2]), FMul(m[r1][c2], m[r2][c1]))

Det3(m, c1, c2, c3) ==
    FAdd(FSub(FMul(m[2][c1], Det2(m, 3, 4, c2, c3)),
              FMul(m[2][c2], Det2(m, 3, 4, c1, c3))),
         FMul(m[2][c3], Det2(m, 3, 4, c1, c2)))

Det(m) ==
    FSub(FAdd(FSub(FMul(m[1][1], Det3(m, 2, 3, 4)),
                   FMul(m[1][2], Det3(m, 1, 3, 4))),
              FMul(m[1][3], Det3(m, 1, 2, 4))),
         FMul(m[1][4], Det3(m, 1, 2, 3)))

NonSingular(m) == Det(m) # F(0)

Constructed(op, arg) ==
    [op |-> op, a |-> Transform_new, b |-> Transform_new, arg |-> arg]

(* x has been built by one of the constructors and y is a copy of it. *)
Init ==
    /\ mat = Matrix44_identity
    /\ outs = <<>>
    /\ n = 0
    /\ \/ /\ x = Transform_new
          /\ last = Constructed("new", <<>>)
          /\ xadm = TRUE
       \/ \E delta \in Deltas :
            /\ x = Transform_translate(delta)
            /\ last = Constructed("translate", delta)
            /\ xadm = TRUE
       \/ \E s \in Scales :
            /\ x = Transform_scale(s[1], s[2], s[3])
            /\ last = Constructed("scale", s)
            /\ xadm = (s[1] # F(0) /\ s[2] # F(0) /\ s[3] # F(0))
       \/ \E m \in FromInputs :
            /\ x = Transform_from(m)
            /\ last = Constructed("from", m)
            /\ xadm = NonSingular(m)
    /\ y = x
    /\ yadm = xadm
    /\ ma = Matrix44_identity
    /\ mb = Matrix44_identity
    /\ call = NoCall

Done(op, a, b, arg) ==
    /\ last' = [op |-> op, a |-> a, b |-> b, arg |-> arg]
    /\ n' = n + 1
    /\ UNCHANGED <<mat, outs, ma, mb, call>>

New ==
    /\ n < MaxOps
    /\ x' = Transform_new
    /\ xadm' = TRUE
    /\ UNCHANGED <<y, yadm>>
    /\ Done("new", Transform_new, Transform_new, <<>>)

Translate ==
    /\ n < MaxOps
    /\ \E delta \in Deltas :
        /\ x' = Transform_translate(delta)
        /\ Done("translate", Transform_new, Transform_new, delta)
    /\ xadm' = TRUE
    /\ UNCHANGED <<y, yadm>>

Scale ==
    /\ n < MaxOps
    /\ \E s \in Scales :
        /\ x' = Transform_scale(s[1], s[2], s[3])
        /\ xadm' = (s[1] # F(0) /\ s[2] # F(0) /\ s[3] # F(0))
        /\ Done("scale", Transform_new, Transform_new, s)
    /\ UNCHANGED <<y, yadm>>

From ==
    /\ n < MaxOps
    /\ \E m \in FromInputs :
        /\ x' = Transform_from(m)
        /\ xadm' = NonSingular(m)
        /\ Done("from", Transform_new, Transform_new, m)
    /\ UNCHANGED <<y, yadm>>

Inverse ==
    /\ n < MaxOps
    /\ x' = Transform_inverse(x)
    /\ UNCHANGED <<y, xadm, yadm>>
    /\ Done("inverse", x, Transform_new, <<>>)

Transpose ==
    /\ n < MaxOps
    /\ x' = Transform_transpose(x)
    /\ UNCHANGED <<y, xadm, yadm>>
    /\ Done("transpose", x, Transform_new, <<>>)

(* x = x * y *)
MulXY ==
    /\ n < MaxOps
    /\ x' = Transform_mul(x, y)
    /\ xadm' = (xadm /\ yadm)
    /\ UNCHANGED <<y, yadm>>
    /\ Done("mul", x, y, <<>>)

(* x = y * x *)
MulYX ==
    /\ n < MaxOps
    /\ x' = Transform_mul(y, x)
    /\ xadm' = (xadm /\ yadm)
    /\ UNCHANGED <<y, yadm>>
    /\ Done("mul", y, x, <<>>)

(* y = x *)
Copy ==
    /\ n < MaxOps
    /\ y' = x
    /\ yadm' = xadm
    /\ UNCHANGED <<x, xadm>>
    /\ Done("copy", x, Transform_new, <<>>)

Next ==
    \/ New
    \/ Translate
    \/ Scale
    \/ From
    \/ Inverse
    \/ Transpose
    \/ MulXY
    \/ MulYX
    \/ Copy

Spec == Init /\ [][Next]_vars

(* ------------------------- Matrix44 operations -------------------------- *)
(* The matrices the constructors of Transform build, non-finite entries    *)
(* (the reciprocal of a zero scale factor) included.                       *)
BuiltTransforms ==
    {Transform_translate(d) : d \in Deltas}
        \cup {Transform_scale(s[1], s[2], s[3]) : s \in Scales}
        \cup {Transform_from(m) : m \in FromInputs}

MatOperands == {t.m : t \in BuiltTransforms} \cup {t.m_inv : t \in BuiltTransforms}

(* The Transform state at rest while Matrix44 or scalar functions are      *)
(* called.                                                                 *)
TransformIdle ==
    /\ mat = Matrix44_identity
    /\ outs = <<>>
    /\ x = Transform_new
    /\ y = Transform_new
    /\ last = [op |-> "none", a |-> Transform_new, b |-> Transform_new, arg |-> <<>>]
    /\ n = 0
    /\ xadm = TRUE
    /\ yadm = TRUE

InitMat ==
    /\ TransformIdle
    /\ ma \in MatOperands
    /\ mb \in MatOperands
    /\ call = NoCall

(* The matrix an operand name stands for. *)
Operand(name) ==
    IF name = "ma" THEN ma ELSE IF name = "mb" THEN mb ELSE Matrix44_identity

(* Each behaviour is one call on the operands drawn at the start, or a     *)
(* chain of transposes: ma.transpose(), then .transpose() of the result   *)
(* of the last transpose.                                                  *)
MatTranspose ==
    /\ \/ /\ call = NoCall
          /\ call' = [op |-> "transpose", a |-> ma,
                       out |-> Matrix44_transpose(ma), depth |-> 1]
       \/ /\ call.op = "transpose"
          /\ call.depth < MaxTransposes
          /\ call' = [op |-> "transpose", a |-> call.out,
                       out |-> Matrix44_transpose(call.out),
                       depth |-> call.depth + 1]
    /\ UNCHANGED <<mat, outs, x, y, last, n, xadm, yadm, ma, mb>>

(* p.mul(q) for p and q among ma, mb and Matrix44::identity(). *)
MatMul ==
    /\ call = NoCall
    /\ \E ra \in {"ma", "mb", "identity"} : \E rb \in {"ma", "mb", "identity"} :
          call' = [op |-> "mul", ra |-> ra, rb |-> rb,
                   a |-> Operand(ra), b |-> Operand(rb),
                   out |-> Matrix44_mul(Operand(ra), Operand(rb))]
    /\ UNCHANGED <<mat, outs, x, y, last, n, xadm, yadm, ma, mb>>

(* ma[i], through Index or IndexMut; neither writes to the matrix. *)
MatIndex ==
    /\ call = NoCall
    /\ \E i \in 0 .. MaxIndex : \E mutable \in BOOLEAN :
          call' = [op |-> "index", a |-> ma, i |-> i, mutable |-> mutable,
                   out |-> Matrix44_index(ma, i)]
    /\ UNCHANGED <<mat, outs, x, y, last, n, xadm, yadm, ma, mb>>

NextMat ==
    \/ MatTranspose
    \/ MatMul
    \/ MatIndex

SpecMat == InitMat /\ [][NextMat]_vars

(* --------------------- scalar and vector operations --------------------- *)
InitVal ==
    /\ TransformIdle
    /\ ma = Matrix44_identity
    /\ mb = Matrix44_identity
    /\ call = NoCall

ValMin ==
    /\ call = NoCall
    /\ \E T \in ValueTypes : \E a \in Scalars(T) : \E b \in Scalars(T) :
          call' = [op |-> "min", T |-> T, a |-> a, b |-> b,
                   out |-> Value_min(T, a, b)]
    /\ UNCHANGED <<mat, outs, x, y, last, n, xadm, yadm, ma, mb>>

ValMax ==
    /\ call = NoCall
    /\ \E T \in ValueTypes : \E a \in Scalars(T) : \E b \in Scalars(T) :
          call' = [op |-> "max", T |-> T, a |-> a, b |-> b,
                   out |-> Value_max(T, a, b)]
    /\ UNCHANGED <<mat, outs, x, y, last, n, xadm, yadm, ma, mb>>

HasNans ==
    /\ call = NoCall
    /\ \E T \in ValueTypes :
          \/ \E v \in Triples(T) :
                call' = [op |-> "has_nans", T |-> T, args |-> v,
                         out |-> has_nans_3(T, v[1], v[2], v[3])]
          \/ \E v \in Pairs(T) :
                call' = [op |-> "has_nans", T |-> T, args |-> v,
                         out |-> has_nans_2(T, v[1], v[2])]
    /\ UNCHANGED <<mat, outs, x, y, last, n, xadm, yadm, ma, mb>>

(* new() of the three-field types and of the two-field types. *)
ConstructNew ==
    /\ call = NoCall
    /\ \E T \in ValueTypes :
          \/ \E kind \in {"Point3", "Vector3", "Normal3"} : \E v \in Triples(T) :
                call' = [op |-> "new", kind |-> kind, T |-> T, args |-> v,
                         out |-> Triple_new(T, v[1], v[2], v[3])]
          \/ \E kind \in {"Point2", "Vector2"} : \E v \in Pairs(T) :
                call' = [op |-> "new", kind |-> kind, T |-> T, args |-> v,
                         out |-> Pair_new(T, v[1], v[2])]
    /\ UNCHANGED <<mat, outs, x, y, last, n, xadm, yadm, ma, mb>>

(* v / s and v /= s. *)
VecDiv ==
    /\ call = NoCall
    /\ \E T \in ValueTypes : \E s \in Scalars(T) : \E assign \in BOOLEAN :
          \/ \E kind \in {"Vector3", "Normal3"} : \E v \in Triples(T) :
                call' = [op |-> "div", kind |-> kind, T |-> T, assign |-> assign,
                         v |-> v, s |-> s, out |-> Vec_div(T, v, s)]
          \/ \E v \in Pairs(T) :
                call' = [op |-> "div", kind |-> "Vector2", T |-> T,
                         assign |-> assign, v |-> v, s |-> s,
                         out |-> Vec_div(T, v, s)]
    /\ UNCHANGED <<mat, outs, x, y, last, n, xadm, yadm, ma, mb>>

NextVal ==
    \/ ValMin
    \/ ValMax
    \/ HasNans
    \/ ConstructNew
    \/ VecDiv

SpecVal == InitVal /\ [][NextVal]_vars

(* --------------------------- Bounds3 operations ------------------------- *)
InitBox ==
    /\ TransformIdle
    /\ ma = Matrix44_identity
    /\ mb = Matrix44_identity
    /\ call = NoCall

(* t.transform(b) for a box b and a transform t. *)
BoxTransform ==
    /\ call = NoCall
    /\ \E b \in Boxes : \E t \in BuiltTransforms \cup {Transform_new} :
          call' = [op |-> "transform", b |-> b, t |-> t,
                   out |-> Bounds3_transform(b, t)]
    /\ UNCHANGED <<mat, outs, x, y, last, n, xadm, yadm, ma, mb>>

(* Bounds3::zero() and Bounds2::zero(). *)
BoxZero ==
    /\ call = NoCall
    /\ \E T \in ValueTypes :
          \/ call' = [op |-> "zero", T |-> T, dim |-> 3, out |-> Bounds3_zero(T)]
          \/ call' = [op |-> "zero", T |-> T, dim |-> 2, out |-> Bounds2_zero(T)]
    /\ UNCHANGED <<mat, outs, x, y, last, n, xadm, yadm, ma, mb>>

BoxUnion ==
    /\ call = NoCall
    /\ \E b \in Boxes : \E p \in BoxPoints :
          call' = [op |-> "union", b |-> b, p |-> p,
                   out |-> Bounds3_union("f64", b, p)]
    /\ UNCHANGED <<mat, outs, x, y, last, n, xadm, yadm, ma, mb>>

BoxOverlap ==
    /\ call = NoCall
    /\ \E a \in Boxes : \E b \in Boxes :
          call' = [op |-> "overlap", a |-> a, b |-> b,
                   out |-> Bounds3_overlap("f64", a, b)]
    /\ UNCHANGED <<mat, outs, x, y, last, n, xadm, yadm, ma, mb>>

BoxOffset ==
    /\ call = NoCall
    /\ \E b \in Boxes : \E p \in BoxPoints :
          call' = [op |-> "offset", b |-> b, p |-> p,
                   out |-> Bounds3_offset("f64", b, p)]
    /\ UNCHANGED <<mat, outs, x, y, last, n, xadm, yadm, ma, mb>>

(* utils::lerp(t, v1, v2) and Bounds3::lerp(t). *)
Lerp ==
    /\ call = NoCall
    /\ \/ \E T \in ValueTypes : \E t \in FiniteScalars(T) :
            \E v1 \in FiniteScalars(T) : \E v2 \in FiniteScalars(T) :
              call' = [op |-> "lerp", T |-> T, t |-> t, v1 |-> v1, v2 |-> v2,
                       out |-> utils_lerp(T, t, v1, v2)]
       \/ \E b \in Boxes : \E t \in BoxPoints :
              call' = [op |-> "box_lerp", b |-> b, t |-> t,
                       out |-> Bounds3_lerp("f64", b, t)]
    /\ UNCHANGED <<mat, outs, x, y, last, n, xadm, yadm, ma, mb>>

(* max_dimension() of a vector or normal and maximum_extent() of a box. *)
MaxDimension ==
    /\ call = NoCall
    /\ \/ \E T \in ValueTypes : \E kind \in {"Vector3", "Normal3"} :
            \E v \in ValidTriples(T) :
              call' = [op |-> "max_dimension", kind |-> kind, T |-> T, v |-> v,
                       out |-> Vector3_max_dimension(T, v)]
       \/ \E b \in Boxes \cup {Bounds3_from("f64", p) : p \in ValidTriples("f64")} :
              call' = [op |-> "max_dimension", kind |-> "Bounds3", T |-> "f64",
                       v |-> Bounds3_diagonal("f64", b),
                       out |-> Bounds3_maximum_extent("f64", b)]
    /\ UNCHANGED <<mat, outs, x, y, last, n, xadm, yadm, ma, mb>>

(* t.transform(ray). *)
RayTransform ==
    /\ call = NoCall
    /\ \E r \in Rays : \E t \in RayTransforms :
          call' = [op |-> "ray_transform", ray |-> r, t |-> t,
                   out |-> Ray_transform(r, t)]
    /\ UNCHANGED <<mat, outs, x, y, last, n, xadm, yadm, ma, mb>>

NextBox ==
    \/ BoxTransform
    \/ RayTransform
    \/ Lerp
    \/ MaxDimension
    \/ BoxZero
    \/ BoxUnion
    \/ BoxOverlap
    \/ BoxOffset

SpecBox == InitBox /\ [][NextBox]_vars

(* ------------------------ reference definitions ------------------------- *)
(* The matrix product of linear algebra: entry (i, j) is the sum over k of *)
(* a[i][k] * b[k][j].                                                      *)
RECURSIVE DotRC(_, _, _, _, _)
DotRC(a, b, i, j, k) ==
    IF k = 0 THEN F(0) ELSE FAdd(DotRC(a, b, i, j, k - 1), FMul(a[i][k], b[k][j]))

MatProd(a, b) == [i \in 1 .. 4 |-> [j \in 1 .. 4 |-> DotRC(a, b, i, j, 4)]]

IsIdentityMatrix(m) ==
    \A i \in 1 .. 4 : \A j \in 1 .. 4 : m[i][j] = (IF i = j THEN F(1) ELSE F(0))

AllFinite(m) == \A i \in 1 .. 4 : \A j \in 1 .. 4 : FIsFinite(m[i][j])

HasZeroRow(m) == \E i \in 1 .. 4 : \A j \in 1 .. 4 : m[i][j] = F(0)

(* m_inv is the inverse of m. *)
IsInversePair(t) ==
    /\ IsIdentityMatrix(MatProd(t.m, t.m_inv))
    /\ IsIdentityMatrix(MatProd(t.m_inv, t.m))

(* The translation by d: the identity with d in the last column. *)
TranslationMatrix(d) ==
    [i \in 1 .. 4 |-> [j \in 1 .. 4 |->
        IF i = j THEN F(1) ELSE IF j = 4 THEN d[i] ELSE F(0)]]

SameMatrix(p, q) == \A i \in 1 .. 4 : \A j \in 1 .. 4 : p[i][j] = q[i][j]

(* ------------------- claims about Matrix44::inverse --------------------- *)
(* C1: for every non-singular M, Matrix44::inverse(M) is the inverse of M: *)
(* inverse(M) x M = M x inverse(M) = identity.                             *)
C1_InverseIsTrueInverse ==
    (Len(outs) >= 1 /\ NonSingular(mat)) =>
        /\ IsIdentityMatrix(MatProd(outs[1], mat))
        /\ IsIdentityMatrix(MatProd(mat, outs[1]))

C3_InverseOfInverse ==
    (Len(outs) >= 2 /\ NonSingular(mat)) => SameMatrix(outs[2], mat)

(* ----------------------- claims about Transform ------------------------- *)
(* C4: every Transform built from new(), translate(d), scale with non-zero *)
(* factors and from(M) with M non-singular by inverse(), transpose() and   *)
(* composition has m_inv equal to the inverse of m.                        *)
C4_PairInvariant ==
    /\ xadm => IsInversePair(x)
    /\ yadm => IsInversePair(y)

(* C5: the stored inverse of a * b is b.m_inv x a.m_inv, so for valid      *)
(* pairs a and b it is the inverse of the forward matrix of a * b.         *)
C5_ComposedInverse ==
    (last.op = "mul") =>
        /\ SameMatrix(x.m_inv, MatProd(last.b.m_inv, last.a.m_inv))
        /\ (IsInversePair(last.a) /\ IsInversePair(last.b)) => IsInversePair(x)

(* Homogeneous column vectors to apply a matrix to. *)
Columns == {<<F(1), F(0), F(0), F(0)>>, <<F(0), F(1), F(0), F(0)>>,
            <<F(0), F(0), F(1), F(0)>>, <<F(0), F(0), F(0), F(1)>>,
            <<F(1), F(2), F(3), F(1)>>}

Apply(m, v) ==
    [i \in 1 .. 4 |->
        FAdd(FAdd(FAdd(FMul(m[i][1], v[1]), FMul(m[i][2], v[2])),
                  FMul(m[i][3], v[3])),
             FMul(m[i][4], v[4]))]

(* C6: the forward matrix of a * b is the matrix product a.m x b.m, in     *)
(* that order: applying it is applying b.m first and a.m to the result.    *)
C6_ComposedForward ==
    (last.op = "mul") =>
        /\ SameMatrix(x.m, MatProd(last.a.m, last.b.m))
        /\ (AllFinite(last.a.m) /\ AllFinite(last.b.m)) =>
              \A v \in Columns :
                  Apply(x.m, v) = Apply(last.a.m, Apply(last.b.m, v))

(* Two transforms whose forward matrices do not commute have been composed. *)
C6_Witness ==
    /\ last.op = "mul"
    /\ AllFinite(last.a.m)
    /\ AllFinite(last.b.m)
    /\ ~SameMatrix(MatProd(last.a.m, last.b.m), MatProd(last.b.m, last.a.m))
    /\ SameMatrix(x.m, MatProd(last.a.m, last.b.m))

(* C7: for t whose m_inv is the inverse of its m, the forward matrix of    *)
(* t * t.inverse() is the identity matrix.                                 *)
C7_ComposeWithOwnInverse ==
    (/\ last.op = "mul"
     /\ last.b = Transform_inverse(last.a)
     /\ IsIdentityMatrix(MatProd(last.a.m_inv, last.a.m))) =>
        x.m = Matrix44_identity

(* A transform other than the identity has been composed with its inverse. *)
C7_Witness ==
    /\ last.op = "mul"
    /\ last.b = Transform_inverse(last.a)
    /\ last.b # last.a
    /\ IsIdentityMatrix(MatProd(last.a.m_inv, last.a.m))
    /\ last.a.m # Matrix44_identity
    /\ x.m = Matrix44_identity

Negated(d) == <<FNeg(d[1]), FNeg(d[2]), FNeg(d[3])>>

(* C8: translate(d).inverse() is translate(-d) in both fields: its forward *)
(* matrix is the translation by -d, its stored inverse the translation by  *)
(* d.                                                                      *)
C8_TranslateInverse ==
    \A d \in Deltas :
        (last.op = "inverse" /\ last.a = Transform_translate(d)) =>
            /\ SameMatrix(x.m, TranslationMatrix(Negated(d)))
            /\ SameMatrix(x.m_inv, TranslationMatrix(d))
            /\ x = Transform_translate(Negated(d))

(* The inverse of a translation by a non-zero d has been taken. *)
C8_Witness ==
    \E d \in Deltas :
        /\ d # <<F(0), F(0), F(0)>>
        /\ last.op = "inverse"
        /\ last.a = Transform_translate(d)
        /\ SameMatrix(x.m, TranslationMatrix(Negated(d)))

C10_InverseSwaps ==
    (last.op = "inverse") =>
        /\ x.m = last.a.m_inv
        /\ x.m_inv = last.a.m
        /\ Transform_inverse(x) = last.a

(* inverse() has been applied to a pair that is not an inverse pair. *)
C10_Witness ==
    /\ last.op = "inverse"
    /\ ~IsInversePair(last.a)
    /\ last.a.m # last.a.m_inv
    /\ x.m = last.a.m_inv
    /\ x.m_inv = last.a.m

(* The diagonal matrix with a, b, c and 1 on the diagonal. *)
DiagMatrix(a, b, c) ==
    [i \in 1 .. 4 |-> [j \in 1 .. 4 |->
        IF i # j THEN F(0)
        ELSE IF i = 1 THEN a ELSE IF i = 2 THEN b ELSE IF i = 3 THEN c ELSE F(1)]]

NonZeroTriple(s) == s[1] # F(0) /\ s[2] # F(0) /\ s[3] # F(0)

(* C11: for non-zero factors (sx, sy, sz), Transform::scale(sx, sy, sz)    *)
(* has forward matrix diag(sx, sy, sz, 1) and stored inverse               *)
(* diag(1/sx, 1/sy, 1/sz, 1), all other entries zero, and m x m_inv is the *)
(* identity.                                                               *)
C11_ScaleDiagonal ==
    (last.op = "scale" /\ NonZeroTriple(last.arg)) =>
        /\ SameMatrix(x.m, DiagMatrix(last.arg[1], last.arg[2], last.arg[3]))
        /\ SameMatrix(x.m_inv, DiagMatrix(FDiv(F(1), last.arg[1]),
                                          FDiv(F(1), last.arg[2]),
                                          FDiv(F(1), last.arg[3])))
        /\ IsIdentityMatrix(MatProd(x.m, x.m_inv))

(* A scale with a factor other than 1 and no zero factor has been built. *)
C11_Witness ==
    /\ last.op = "scale"
    /\ NonZeroTriple(last.arg)
    /\ last.arg[1] = F(2)
    /\ x.m[1][1] = F(2)
    /\ x.m_inv[1][1] = <<1, 2>>

(* C12: Transform::transpose() transposes each field on its own: the       *)
(* result's m is the transpose of the receiver's m and its m_inv the       *)
(* transpose of the receiver's m_inv; nothing is inverted or exchanged.    *)
C12_TransposeBothFields ==
    (last.op = "transpose") =>
        \A i \in 1 .. 4 : \A j \in 1 .. 4 :
            /\ x.m[i][j] = last.a.m[j][i]
            /\ x.m_inv[i][j] = last.a.m_inv[j][i]

(* A transform whose two matrices differ and are not symmetric has been    *)
(* transposed.                                                             *)
C12_Witness ==
    /\ last.op = "transpose"
    /\ last.a.m # last.a.m_inv
    /\ Matrix44_transpose(last.a.m) # last.a.m
    /\ x.m = Matrix44_transpose(last.a.m)
    /\ x.m_inv = Matrix44_transpose(last.a.m_inv)

(* ------------------------ claims about Matrix44 ------------------------- *)
(* C13: transpose(M)[i][j] = M[j][i] for all i, j, and                     *)
(* transpose(transpose(M)) is M again, entry for entry.                    *)
C13_TransposeInvolution ==
    (call.op = "transpose") =>
        /\ \A i \in 1 .. 4 : \A j \in 1 .. 4 : call.out[i][j] = call.a[j][i]
        /\ (call.depth % 2 = 0) => call.out = ma

(* A matrix that is not symmetric has been transposed twice. *)
C13_Witness ==
    /\ call.op = "transpose"
    /\ call.depth = 2
    /\ call.a # ma
    /\ call.out = ma

(* Original C14: for every matrix M, identity.mul(M) and M.mul(identity)  *)
(* are M.                                                                  *)
C14_IdentityNeutral_AnyMatrix ==
    (call.op = "mul") =>
        /\ (call.ra = "identity") => call.out = call.b
        /\ (call.rb = "identity") => call.out = call.a

(* C14: for every matrix M whose entries are all finite,                   *)
(* identity.mul(M) and M.mul(identity) are M.  (An infinite entry of M is  *)
(* multiplied by the zeros of the identity, which gives NaN.)              *)
C14_IdentityNeutral ==
    (call.op = "mul") =>
        /\ (call.ra = "identity" /\ AllFinite(call.b)) => call.out = call.b
        /\ (call.rb = "identity" /\ AllFinite(call.a)) => call.out = call.a

(* A finite matrix that is not symmetric has been multiplied by the        *)
(* identity from the left.                                                 *)
C14_Witness ==
    /\ call.op = "mul"
    /\ call.ra = "identity"
    /\ AllFinite(call.b)
    /\ call.b # Matrix44_transpose(call.b)
    /\ call.out = call.b

(* C15: a.mul(b) is the matrix product, result[i][j] = sum over k of       *)
(* a[i][k] * b[k][j], and the caller's a and b are what they were before   *)
(* the call.                                                               *)
C15_StandardProduct ==
    (call.op = "mul") =>
        /\ \A i \in 1 .. 4 : \A j \in 1 .. 4 :
              call.out[i][j] = DotRC(call.a, call.b, i, j, 4)
        /\ call.a = Operand(call.ra)
        /\ call.b = Operand(call.rb)

(* Two finite matrices have been multiplied whose product in the other     *)
(* order is different: mul is not commutative.                             *)
C15_Witness ==
    /\ call.op = "mul"
    /\ call.ra = "ma"
    /\ call.rb = "mb"
    /\ AllFinite(call.a)
    /\ AllFinite(call.b)
    /\ call.out = MatProd(call.a, call.b)
    /\ call.out # Matrix44_mul(call.b, call.a)

(* C17: Index and IndexMut return row i for i in 0..3; for every i > 3    *)
(* the assertion panics and no value is returned; in both cases the matrix *)
(* is what it was before.                                                  *)
C17_IndexAsserts ==
    (call.op = "index") =>
        /\ (call.i <= 3) => (~call.out.panic /\ call.out.row = ma[call.i + 1])
        /\ (call.i > 3) => (call.out.panic /\ DOMAIN call.out = {"panic"})
        /\ call.a = ma

(* The matrix has been indexed with 4, the first index out of range. *)
C17_Witness ==
    /\ call.op = "index"
    /\ call.i = 4
    /\ call.mutable
    /\ call.out.panic
    /\ ma # Matrix44_identity

(* ------------------- claims about scalars and vectors ------------------ *)
(* Some argument of the call is a NaN. *)
AnyNaN(T, args) == T = "f64" /\ \E k \in DOMAIN args : FIsNaN(args[k])

(* C18: new() of a point, vector or normal panics and gives no value when  *)
(* a component is NaN, and otherwise stores exactly the components given;  *)
(* has_nans_3 and has_nans_2 are true exactly when an argument is NaN.     *)
C18_NaNConstruction ==
    /\ (call.op = "new") =>
          IF AnyNaN(call.T, call.args)
          THEN call.out.panic /\ DOMAIN call.out = {"panic"}
          ELSE ~call.out.panic /\ call.out.val = call.args
    /\ (call.op = "has_nans") => (call.out <=> AnyNaN(call.T, call.args))

(* A Normal3 has been asked for whose only NaN is its last component. *)
C18_Witness ==
    /\ call.op = "new"
    /\ call.kind = "Normal3"
    /\ call.T = "f64"
    /\ ~FIsNaN(call.args[1])
    /\ ~FIsNaN(call.args[2])
    /\ FIsNaN(call.args[3])
    /\ call.out.panic

(* C19: min(a, b) is a exactly when a < b and b otherwise, max(a, b) is a  *)
(* exactly when a > b and b otherwise; when neither is smaller both are b, *)
(* and the result is always one of a and b.                                *)
C19_MinMaxStrict ==
    /\ (call.op = "min") =>
          /\ VLt(call.T, call.a, call.b) => call.out = call.a
          /\ ~VLt(call.T, call.a, call.b) => call.out = call.b
    /\ (call.op = "max") =>
          /\ VGt(call.T, call.a, call.b) => call.out = call.a
          /\ ~VGt(call.T, call.a, call.b) => call.out = call.b
    /\ (call.op \in {"min", "max"}) =>
          /\ call.out \in {call.a, call.b}
          /\ (~VLt(call.T, call.a, call.b) /\ ~VLt(call.T, call.b, call.a)) =>
                call.out = call.b

(* min has been called on a number and a NaN, which no comparison orders:  *)
(* the result is the second argument, the NaN.                             *)
C19_Witness ==
    /\ call.op = "min"
    /\ call.T = "f64"
    /\ call.a = F(1)
    /\ FIsNaN(call.b)
    /\ call.out = call.b

(* C20: for a non-zero scalar s, v / s and v /= s are (v.x/s, v.y/s,       *)
(* v.z/s) for Vector3, Normal3 and Vector2, in f64 and in i32.             *)
C20_ComponentwiseQuotient ==
    (call.op = "div" /\ ~VIsZero(call.T, call.s)) =>
        /\ ~call.out.panic
        /\ \A k \in DOMAIN call.v :
              call.out.val[k] = VDiv(call.T, call.v[k], call.s)

(* ------------------------- claims about Bounds3 ------------------------- *)
(* C16: the box returned by Bounds3::transform for b and t contains the    *)
(* image under t of each of the 8 corners of b and of every point inside   *)
(* b.                                                                      *)
C16_TransformContainsImages ==
    (call.op = "transform") =>
        /\ \A k \in 1 .. 8 :
              Bounds3_inside("f64", call.out, Point3_transform(CornerAt(call.b, k), call.t))
        /\ \A p \in BoxPoints :
              Bounds3_inside("f64", call.b, p) =>
                  Bounds3_inside("f64", call.out, Point3_transform(p, call.t))

(* ---------------- claims about the steps of inverse --------------------- *)
(* No entry of column i in rows i..3 is larger in magnitude than v. *)
LargestInColumn(m, i, v) ==
    \A j \in i .. 3 : ~FGt(FAbs(m[j + 1][i + 1]), v)

(* C23: in every iteration i = 0, 1, 2 of the first loop of inverse the    *)
(* pivot row is a row j >= i whose |S[j][i]| is the largest among rows     *)
(* i..3, whatever the signs, and the identity is returned in that          *)
(* iteration only if that largest magnitude is zero.                       *)
C23_PartialPivoting ==
    (Len(outs) = 1) =>
        LET tr == InverseTrace(mat)
        IN  \A i \in 0 .. 2 :
                ~tr[i + 1].ret =>
                  /\ PivotSearch(tr[i + 1].s, i).pivot >= i
                  /\ LargestInColumn(tr[i + 1].s, i,
                        FAbs(tr[i + 1].s[PivotSearch(tr[i + 1].s, i).pivot + 1][i + 1]))
                  /\ tr[i + 2].ret => LargestInColumn(tr[i + 1].s, i, F(0))

(* C24: after every iteration of both loops of inverse the accumulator R   *)
(* and the working copy S satisfy R x M = S for the input M, and a run     *)
(* that does not return the identity sentinel ends with S the identity.    *)
C24_AccumulatorInvariant ==
    (Len(outs) = 1) =>
        LET tr == InverseTrace(mat)
        IN  /\ \A k \in 1 .. 8 :
                  ~tr[k].ret => SameMatrix(Matrix44_mul(tr[k].r, mat), tr[k].s)
            /\ ~tr[8].ret => tr[8].s = Matrix44_identity

(* A matrix has been inverted with a row swap in the first iteration and   *)
(* without the sentinel.                                                   *)
C24_Witness ==
    /\ Len(outs) = 1
    /\ PivotSearch(mat, 0).pivot # 0
    /\ ~InverseTrace(mat)[8].ret
    /\ InverseTrace(mat)[8].s = Matrix44_identity
    /\ outs[1] = InverseTrace(mat)[8].r

(* C25: every division inverse executes has a non-zero divisor: the pivot  *)
(* entry S[i][i] after the swap of a first-loop iteration that goes on to  *)
(* eliminate, and the diagonal entry of a second-loop iteration that goes  *)
(* on to normalise.                                                        *)
C25_NoZeroDivisor ==
    (Len(outs) = 1) =>
        LET tr == InverseTrace(mat)
        IN  /\ \A i \in 0 .. 2 :
                  (~tr[i + 1].ret /\ ~tr[i + 2].ret) =>
                      SwapRows(tr[i + 1].s, i,
                               PivotSearch(tr[i + 1].s, i).pivot)[i + 1][i + 1] # F(0)
            /\ \A i \in 0 .. 3 :
                  (~tr[7 - i].ret /\ ~tr[8 - i].ret) =>
                      tr[7 - i].s[i + 1][i + 1] # F(0)

(* A singular matrix without a zero row has been inverted: the first loop  *)
(* divided by three non-zero pivots and the second met a zero diagonal     *)
(* entry and returned the sentinel.                                        *)
C25_Witness ==
    /\ Len(outs) = 1
    /\ ~HasZeroRow(mat)
    /\ ~InverseTrace(mat)[4].ret
    /\ InverseTrace(mat)[4].s[4][4] = F(0)
    /\ InverseTrace(mat)[5].ret
    /\ outs[1] = Matrix44_identity

(* ---------------------- more claims about Bounds3 ----------------------- *)
(* Points to test a box with: the scalars of the model and the two         *)
(* sentinels on every axis.                                                *)
ProbeValues(T) == Scalars(T) \cup {VMaxValue(T), VMinValue(T)}

(* C22: Bounds3::zero() and Bounds2::zero() have every component of p_min  *)
(* equal to T's maximum and every component of p_max equal to T's minimum, *)
(* and no point is inside Bounds3::zero().                                 *)
C22_ZeroIsEmpty ==
    (call.op = "zero") =>
        /\ \A k \in 1 .. call.dim :
              /\ call.out.p_min[k] = VMaxValue(call.T)
              /\ call.out.p_max[k] = VMinValue(call.T)
        /\ (call.dim = 3) =>
              \A px \in ProbeValues(call.T) : \A py \in ProbeValues(call.T) :
                \A pz \in ProbeValues(call.T) :
                  ~Bounds3_inside(call.T, call.out, <<px, py, pz>>)

(* Bounds3::<i32>::zero() has been built. *)
C22_Witness ==
    /\ call.op = "zero"
    /\ call.T = "i32"
    /\ call.dim = 3
    /\ call.out.p_min[1] > call.out.p_max[1]
    /\ ~Bounds3_inside("i32", call.out, <<0, 0, 0>>)

(* The smaller and the larger of two finite values. *)
Smaller(a, b) == IF FLt(b, a) THEN b ELSE a

Larger(a, b) == IF FLt(a, b) THEN b ELSE a

(* C26: union(b, p) has the component-wise minimum of b.p_min and p as     *)
(* p_min and the component-wise maximum of b.p_max and p as p_max, so p    *)
(* and every point inside b are inside the result.                         *)
C26_UnionWithPoint ==
    (call.op = "union") =>
        /\ \A k \in 1 .. 3 :
              /\ call.out.p_min[k] = Smaller(call.b.p_min[k], call.p[k])
              /\ call.out.p_max[k] = Larger(call.b.p_max[k], call.p[k])
        /\ Bounds3_inside("f64", call.out, call.p)
        /\ \A q \in BoxPoints :
              Bounds3_inside("f64", call.b, q) => Bounds3_inside("f64", call.out, q)

(* C27: overlap(a, b) is true exactly when on each axis a.p_max >= b.p_min *)
(* and a.p_min <= b.p_max, so it is symmetric and overlap(a, a) is true.   *)
C27_OverlapPerAxis ==
    (call.op = "overlap") =>
        /\ call.out <=>
              \A k \in 1 .. 3 :
                  /\ VGe("f64", call.a.p_max[k], call.b.p_min[k])
                  /\ VLe("f64", call.a.p_min[k], call.b.p_max[k])
        /\ call.out <=> Bounds3_overlap("f64", call.b, call.a)
        /\ (call.a = call.b) => call.out

(* C28: for a box with p_max > p_min on all three axes, each component of  *)
(* offset(p) is that axis's (p - p_min) / (p_max - p_min).                 *)
C28_OffsetPerAxis ==
    (/\ call.op = "offset"
     /\ \A k \in 1 .. 3 : FGt(call.b.p_max[k], call.b.p_min[k])) =>
        \A k \in 1 .. 3 :
            call.out[k] = FDiv(FSub(call.p[k], call.b.p_min[k]),
                               FSub(call.b.p_max[k], call.b.p_min[k]))

(* C29: lerp(t, v1, v2) is (1 - t) * v1 + t * v2, so it is v1 at t = 0    *)
(* and v2 at t = 1; Bounds3::lerp gives p_min at t = (0,0,0), p_max at     *)
(* t = (1,1,1) and, for t the same on every axis, what Point3::lerp gives  *)
(* between p_min and p_max.                                                *)
C29_LinearInterpolation ==
    /\ (call.op = "lerp") =>
          /\ call.out = VAdd(call.T,
                             VMul(call.T, VSub(call.T, VOne(call.T), call.t), call.v1),
                             VMul(call.T, call.t, call.v2))
          /\ (call.t = VZero(call.T)) => call.out = call.v1
          /\ (call.t = VOne(call.T)) => call.out = call.v2
    /\ (call.op = "box_lerp") =>
          /\ (call.t = <<F(0), F(0), F(0)>>) => call.out = call.b.p_min
          /\ (call.t = <<F(1), F(1), F(1)>>) => call.out = call.b.p_max
          /\ (call.t[1] = call.t[2] /\ call.t[2] = call.t[3]) =>
                call.out = Point3_lerp(call.b.p_min, call.b.p_max, call.t[1])

(* C30 as stated: max_dimension of a vector or normal, and maximum_extent  *)
(* of a box on its diagonal, return an index in 0..2 whose component is    *)
(* greater than or equal to the other two, for every input.                *)
C30_MaxDimension_AnyInput ==
    (call.op = "max_dimension") =>
        /\ call.out \in 0 .. 2
        /\ \A k \in 1 .. 3 : VGe(call.T, call.v[call.out + 1], call.v[k])

(* C30: when no component of the vector, the normal or the diagonal is     *)
(* NaN, the index returned is in 0..2 and its component is greater than or *)
(* equal to the other two, ties included.                                  *)
C30_MaxDimension ==
    (/\ call.op = "max_dimension"
     /\ ~has_nans_3(call.T, call.v[1], call.v[2], call.v[3])) =>
        /\ call.out \in 0 .. 2
        /\ \A k \in 1 .. 3 : VGe(call.T, call.v[call.out + 1], call.v[k])

(* max_dimension has been called on a vector whose first two components    *)
(* tie for the largest.                                                    *)
C30_Witness ==
    /\ call.op = "max_dimension"
    /\ call.kind = "Vector3"
    /\ call.T = "i32"
    /\ call.v[1] = call.v[2]
    /\ call.v[2] > call.v[3]
    /\ call.out = 1

====
